---- MODULE Spec2Model ----
(***************************************************************************)
(* Aggregation-cache-synthesis pipeline of the Express service             *)
(* (src/server/index.js) and the authentication middleware                 *)
(* (src/unnamed/part_000).                                                 *)
(*                                                                         *)
(* Strings are sequences of one-character strings, so that toLowerCase,    *)
(* trim, includes and template concatenation are computed, not assumed.    *)
(* Time is in milliseconds since the epoch; the clock runs over the first  *)
(* days of January 1970 so that every instant fits a machine integer.      *)
(***************************************************************************)
EXTENDS Integers, Sequences, FiniteSets, TLC

(***************************************************************************)
(* Program constants                                                       *)
(***************************************************************************)
\* const CACHE_DURATION = 1000 * 60 * 30
CACHE_DURATION == 1000 * 60 * 30

\* the divisor (1000 * 3600 * 24) of daysUntilExam
MS_PER_DAY == 1000 * 3600 * 24

\* .slice(0, 5)
TOP_K == 5

\* result.content.length > 100
MIN_CONTENT == 100

(***************************************************************************)
(* Bounds                                                                  *)
(***************************************************************************)
\* the number of midnights the clock passes
MaxDays == 0

(***************************************************************************)
(* Strings                                                                 *)
(***************************************************************************)
\* An optional value is a sequence of length at most one: Undefined (also
\* standing for NaN and for a missing Map entry) or Some(v)
Undefined == <<>>

Some(v) == <<v>>

ValueOf(o) == o[1]

\* String.prototype.toLowerCase on one character
LowerChar(c) ==
  CASE c = "P" -> "p"
    [] c = "Y" -> "y"
    [] c = "A" -> "a"
    [] c = "T" -> "t"
    [] c = "S" -> "s"
    [] OTHER -> c

\* String.prototype.toLowerCase
ToLower(s) == [i \in 1..Len(s) |-> LowerChar(s[i])]

\* the characters String.prototype.trim removes
IsSpace(c) == c \in {" ", "\n", "\t"}

RECURSIVE TrimStart(_)
\* String.prototype.trimStart
TrimStart(s) ==
  IF s # <<>> /\ IsSpace(Head(s)) THEN TrimStart(Tail(s)) ELSE s

RECURSIVE TrimEnd(_)
\* String.prototype.trimEnd
TrimEnd(s) ==
  IF s # <<>> /\ IsSpace(s[Len(s)]) THEN TrimEnd(SubSeq(s, 1, Len(s) - 1)) ELSE s

\* String.prototype.trim
Trim(s) == TrimEnd(TrimStart(s))

\* String.prototype.includes
Includes(hay, needle) ==
  \E i \in 1..(Len(hay) - Len(needle) + 1) :
    SubSeq(hay, i, i + Len(needle) - 1) = needle

\* a boolean interpolated into a template literal
BoolStr(b) ==
  IF b THEN <<"t", "r", "u", "e">> ELSE <<"f", "a", "l", "s", "e">>

(***************************************************************************)
(* Cache keys                                                              *)
(***************************************************************************)
\* `${subject}-${isStudyPlan}`.toLowerCase().trim()
SearchKey(subject, isStudyPlan) ==
  Trim(ToLower(subject \o <<"-">> \o BoolStr(isStudyPlan)))

\* `plan-${subject}-${examDate}`.toLowerCase()
PlanKey(subject, examDate) ==
  ToLower(<<"p", "l", "a", "n", "-">> \o subject \o <<"-">> \o examDate)

(***************************************************************************)
(* Dates                                                                   *)
(***************************************************************************)
DigitVal(c) ==
  CASE c = "0" -> 0 [] c = "1" -> 1 [] c = "2" -> 2 [] c = "3" -> 3
    [] c = "4" -> 4 [] c = "5" -> 5 [] c = "6" -> 6 [] c = "7" -> 7
    [] c = "8" -> 8 [] c = "9" -> 9 [] OTHER -> -1

\* new Date(examDate).getTime() for the date-only ISO form YYYY-MM-DD, which
\* is midnight UTC of that day; restricted to January 1970, any other string
\* is an invalid date (NaN)
DateGetTime(s) ==
  IF /\ Len(s) = 10
     /\ SubSeq(s, 1, 8) = <<"1", "9", "7", "0", "-", "0", "1", "-">>
     /\ DigitVal(s[9]) >= 0
     /\ DigitVal(s[10]) >= 0
     /\ 10 * DigitVal(s[9]) + DigitVal(s[10]) \in 1..31
  THEN Some((10 * DigitVal(s[9]) + DigitVal(s[10]) - 1) * MS_PER_DAY)
  ELSE Undefined

\* CeilDiv rounding down instead of up
FloorDiv(a, d) == a \div d

\* Math.ceil(a / d) for integers a and d > 0
CeilDiv(a, d) == -((-a) \div d)

\* Math.ceil((new Date(examDate).getTime() - new Date().getTime()) / (1000 * 3600 * 24))
DaysUntilExam(examDate, t) ==
  IF DateGetTime(examDate) = Undefined THEN Undefined
  ELSE Some(CeilDiv(ValueOf(DateGetTime(examDate)) - t, MS_PER_DAY))

(***************************************************************************)
(* Search results: filter, rank, de-duplicate                              *)
(***************************************************************************)
\* a result of the search provider, with a string url, title and content;
\* content is kept by its length (the code reads content.length and a prefix
\* of it only); relevance_score and timestamp are optional, the timestamp
\* in epoch milliseconds
Result(url, title, contentLength, relevance_score, timestamp) ==
  [url |-> url, title |-> title, contentLength |-> contentLength,
   relevance_score |-> relevance_score, timestamp |-> timestamp]

Sponsored == <<"s", "p", "o", "n", "s", "o", "r", "e", "d">>

\* the predicate of combinedResults.filter
KeepResult(result, subject) ==
  LET hasRelevantTitle == Includes(ToLower(result.title), ToLower(subject))
      hasSubstantialContent == result.contentLength > MIN_CONTENT
      isNotAdvertisement == ~Includes(ToLower(result.title), Sponsored)
  IN  hasRelevantTitle /\ hasSubstantialContent /\ isNotAdvertisement

\* Array.prototype.filter with KeepResult
FilterResults(results, subject) ==
  SelectSeq(results, LAMBDA r : KeepResult(r, subject))

\* (a.relevance_score || 0) + (a.timestamp ? new Date(a.timestamp).getTime() : 0)
Score(a) ==
  (IF a.relevance_score = Undefined THEN 0 ELSE ValueOf(a.relevance_score))
  + (IF a.timestamp = Undefined THEN 0 ELSE ValueOf(a.timestamp))

\* the comparator (a, b) => scoreB - scoreA: negative when a goes before b
Compare(a, b) == Score(b) - Score(a)

RECURSIVE InsertSorted(_, _)
\* x goes after every element that does not have to come after it
InsertSorted(x, sorted) ==
  IF sorted = <<>> THEN <<x>>
  ELSE IF Compare(Head(sorted), x) <= 0
       THEN <<Head(sorted)>> \o InsertSorted(x, Tail(sorted))
       ELSE <<x>> \o sorted

RECURSIVE SortResults(_)
\* Array.prototype.sort (stable) with Compare
SortResults(results) ==
  IF results = <<>> THEN <<>>
  ELSE InsertSorted(results[Len(results)],
                    SortResults(SubSeq(results, 1, Len(results) - 1)))

\* UniqueByUrl keeping every item
KeepAll(items) == items

\* Array.from(new Map(items.map(item => [item.url, item])).values()): a key
\* keeps the position of its first entry and the value of its last entry
UniqueByUrl(items) ==
  LET first(i) == \A j \in 1..(i - 1) : items[j].url # items[i].url
      lastOf(i) == CHOOSE j \in i..Len(items) :
                     /\ items[j].url = items[i].url
                     /\ \A k \in (j + 1)..Len(items) : items[k].url # items[i].url
      firsts == SelectSeq([i \in 1..Len(items) |-> i], first)
  IN  [n \in 1..Len(firsts) |-> items[lastOf(firsts[n])]]

\* Slice that keeps every element
NoSlice(s, n) == s

\* Array.prototype.slice(0, n)
Slice(s, n) == SubSeq(s, 1, IF Len(s) < n THEN Len(s) ELSE n)

\* uniqueResults of searchTavily, from the bodies of the two sub-queries
UniqueResults(videoResults, platformResults, subject) ==
  Slice(UniqueByUrl(SortResults(
          FilterResults(videoResults.results \o platformResults.results, subject))),
        TOP_K)

(***************************************************************************)
(* Extraction of the model's output                                        *)
(***************************************************************************)
\* the grave accent (U+0060), one character
Backtick == "BACKTICK"

Fence == <<Backtick, Backtick, Backtick>>

FenceJson == Fence \o <<"j", "s", "o", "n">>

StartsWith(t, p) == Len(t) >= Len(p) /\ SubSeq(t, 1, Len(p)) = p

Drop(t, n) == SubSeq(t, n + 1, Len(t))

RECURSIVE StripFences(_)
\* text.replace(/FENCEjson\s*|\s*FENCE/g, "") where FENCE is three grave
\* accents: scanning left to right, at each position the first alternative
\* is tried before the second
StripFences(t) ==
  IF t = <<>> THEN <<>>
  ELSE IF StartsWith(t, FenceJson)
       THEN StripFences(TrimStart(Drop(t, Len(FenceJson))))
  ELSE IF StartsWith(TrimStart(t), Fence)
       THEN StripFences(Drop(TrimStart(t), Len(Fence)))
  ELSE <<Head(t)>> \o StripFences(Tail(t))

\* JSON.parse throws
SyntaxError == [error |-> "SyntaxError"]

\* a parsed JSON document
Json(t) == [json |-> t]

\* JSON.parse on the documents the model handles: an empty object, an empty
\* array (white space allowed between the brackets), a string without
\* escapes, null and one-digit numbers; the value is written as its text,
\* without the white space between brackets
JsonParse(t) ==
  LET n == Len(t)
      inner == IF n >= 2 THEN SubSeq(t, 2, n - 1) ELSE <<>>
      blank == \A i \in 1..Len(inner) : IsSpace(inner[i])
      plain == \A i \in 1..Len(inner) : inner[i] \notin {"\"", "\\", "\n"}
  IN  IF n >= 2 /\ t[1] = "{" /\ t[n] = "}" /\ blank THEN Json(<<"{", "}">>)
      ELSE IF n >= 2 /\ t[1] = "[" /\ t[n] = "]" /\ blank THEN Json(<<"[", "]">>)
      ELSE IF n >= 2 /\ t[1] = "\"" /\ t[n] = "\"" /\ plain THEN Json(t)
      ELSE IF t = <<"n", "u", "l", "l">> THEN Json(t)
      ELSE IF n = 1 /\ DigitVal(t[1]) >= 0 THEN Json(t)
      ELSE SyntaxError

\* JSON.parse(result.response.text().replace(..., "").trim())
ExtractJson(text) == JsonParse(Trim(StripFences(text)))

(***************************************************************************)
(* The environment of the pipeline: requests, provider bodies, model       *)
(* outputs, clock                                                          *)
(***************************************************************************)
\* the requests in flight at the Express service
Reqs == {"r1", "r2"}

\* req.body.subject
Subjects == {<<"P", "y">>}

\* the instant the model starts at: 3 January 1970, 00:00 UTC
Start == 2 * MS_PER_DAY

DigitChar(n) == <<"0", "1", "2", "3", "4", "5", "6", "7", "8", "9">>[n + 1]

\* the ISO date of day n of January 1970
January(n) ==
  <<"1", "9", "7", "0", "-", "0", "1", "-", DigitChar(n \div 10), DigitChar(n % 10)>>

\* req.body.examDate: two days before the start, and ten days after it
ExamDates == {January(1), January(13)}

R1 == Result("https://a.org/1", <<"P", "y", " ", "a">>, 150, Some(5), Some(1000))

R2 == Result("https://a.org/1", <<"p", "y", " ", "b">>, 200, Some(1), Some(9000))

R3 == Result("https://b.org/2", <<"p", "y", " ", "c">>, 150, Undefined, Undefined)

\* a body without results: the provider's error document
ErrorBody == [detail |-> "error"]

\* what res.json() of sub-query i can resolve to: the provider's results for
\* that query, or its error document
Bodies(i) ==
  { IF i = 1 THEN [results |-> <<R1, R3>>] ELSE [results |-> <<R2>>], ErrorBody }

HasResults(body) == "results" \in DOMAIN body

\* result.response.text() of the generative model
ModelTexts ==
  { Fence \o <<"j", "s", "o", "n", "\n", "{", "}", "\n">> \o Fence,
    <<"[", "]">>,
    <<"S", "o", "r", "r", "y">> }

\* error.name of a rejected model call
ErrorNames == {"Error", "AbortError"}

\* the instants the clock takes: around one cache duration after the start,
\* and the following midnights
Instants ==
  {Start, Start + CACHE_DURATION - 1, Start + CACHE_DURATION}
    \cup {Start + d * MS_PER_DAY : d \in 1..MaxDays}

(***************************************************************************)
(* State                                                                   *)
(***************************************************************************)
VARIABLES
  now,          \* Date.now()
  searchCache,  \* the Map searchCache: key -> [timestamp, data]
  pc,           \* where each request stands: idle, fanout, model, done
  op,           \* its route: curate (POST /api/curate), plan (POST /api/plan)
  subject,      \* req.body.subject
  examDate,     \* req.body.examDate
  subq,         \* its two sub-queries: none, pending, fulfilled, rejected
  body,         \* the bodies its fulfilled sub-queries resolved to
  returned,     \* what searchTavily / generateStudyPlan returned to the route
  resp,         \* the response sent: [status, body]
  hist,         \* history of the request (observation only)
  keyIn,        \* the arguments of a pair of cache-key computations
  keyOut,       \* the keys computed from keyIn
  rankIn,       \* the bodies and the subject of one searchTavily miss
  rankOut,      \* what searchTavily returns for rankIn
  authReq,      \* the request authMiddleware is given
  authPc,       \* where authMiddleware stands: start, getToken, done
  authRes,      \* what authMiddleware did: [status, next, user, by]
  extractIn,    \* a response of the model: [fenced, tag, sep, doc]
  extractOut,   \* what the extraction made of extractIn
  frontIn,      \* the request each front-end POST route is given
  frontPc,      \* where each front-end route stands, by the call it awaits
  frontOut,     \* what each front-end route did: [status, fetches, express, saves]
  frontDb       \* the documents stored in the database

pipeVars ==
  <<now, searchCache, pc, op, subject, examDate, subq, body, returned, resp, hist>>

keyVars == <<keyIn, keyOut>>

rankVars == <<rankIn, rankOut>>

authVars == <<authReq, authPc, authRes>>

extractVars == <<extractIn, extractOut>>

frontVars == <<frontIn, frontPc, frontOut, frontDb>>

vars == <<pipeVars, keyVars, rankVars, authVars, extractVars, frontVars>>

NoResp == [status |-> 0, body |-> [none |-> TRUE]]

NoHist ==
  [arrivedAt |-> -1, respondedAt |-> -1, answeredBefore |-> {},
   cachedResult |-> Undefined,
   providerCalls |-> 0, modelCalls |-> 0, cause |-> "none",
   daysAt |-> -1, daysUntilExam |-> Undefined, modelText |-> Undefined,
   responses |-> 0]

NoAuthRes == [status |-> 0, next |-> FALSE, user |-> Undefined, by |-> "none"]

KeyIdle == keyIn = Undefined /\ keyOut = Undefined

RankIdle == rankIn = Undefined /\ rankOut = Undefined

AuthIdle == authReq = Undefined /\ authPc = "done" /\ authRes = NoAuthRes

ExtractIdle == extractIn = Undefined /\ extractOut = Undefined

FrontIdle ==
  frontIn = Undefined /\ frontPc = Undefined /\ frontOut = Undefined /\ frontDb = {}

PipeInit ==
  /\ now = Start
  /\ searchCache = <<>>
  /\ pc = [r \in Reqs |-> "idle"]
  /\ op = [r \in Reqs |-> "none"]
  /\ subject = [r \in Reqs |-> <<>>]
  /\ examDate = [r \in Reqs |-> <<>>]
  /\ subq = [r \in Reqs |-> <<"none", "none">>]
  /\ body = [r \in Reqs |-> <<[none |-> TRUE], [none |-> TRUE]>>]
  /\ returned = [r \in Reqs |-> Undefined]
  /\ resp = [r \in Reqs |-> NoResp]
  /\ hist = [r \in Reqs |-> NoHist]

Init == PipeInit /\ KeyIdle /\ RankIdle /\ AuthIdle /\ ExtractIdle /\ FrontIdle

(***************************************************************************)
(* Cache                                                                   *)
(***************************************************************************)
\* searchCache.get(cacheKey)
CacheGet(cache, key) ==
  IF key \in DOMAIN cache THEN Some(cache[key]) ELSE Undefined

\* IsFresh with the comparison made inclusive
IsFreshInclusive(cachedResult, t) ==
  /\ cachedResult # Undefined
  /\ t - ValueOf(cachedResult).timestamp <= CACHE_DURATION

\* cachedResult && Date.now() - cachedResult.timestamp < CACHE_DURATION
IsFresh(cachedResult, t) ==
  /\ cachedResult # Undefined
  /\ t - ValueOf(cachedResult).timestamp < CACHE_DURATION

\* CacheSet that keeps an entry already stored under the key
CacheSetIfAbsent(cache, key, t, data) ==
  IF key \in DOMAIN cache
  THEN cache
  ELSE [k \in DOMAIN cache \cup {key} |->
          IF k = key THEN [timestamp |-> t, data |-> data] ELSE cache[k]]

\* searchCache.set(cacheKey, { timestamp: Date.now(), data })
CacheSet(cache, key, t, data) ==
  [k \in DOMAIN cache \cup {key} |->
     IF k = key THEN [timestamp |-> t, data |-> data] ELSE cache[k]]

\* the catch of searchTavily: return { results: [], answer: '' }
EmptySearch == [results |-> <<>>, answer |-> <<>>]

\* what searchTavily(subject) returns once both sub-queries have fulfilled
\* with bodies b1 and b2: searchData, or the catch's value when spreading
\* the results of a body without results throws
SearchData(b1, b2, subj) ==
  IF HasResults(b1) /\ HasResults(b2)
  THEN [results |-> UniqueResults(b1, b2, subj), answer |-> <<>>]
  ELSE EmptySearch

\* the cache key the route of a request uses
KeyOf(o, s, d) == IF o = "curate" THEN SearchKey(s, FALSE) ELSE PlanKey(s, d)

(***************************************************************************)
(* Responses                                                               *)
(***************************************************************************)
\* res.json(value)
Ok(value) == [status |-> 200, body |-> value]

\* the catch of app.post('/api/plan')
PlanError == [status |-> 500, body |-> [error |-> "Failed to generate plan"]]

\* the catch of app.post('/api/curate')
CurateError(name) ==
  IF name = "AbortError"
  THEN [status |-> 504, body |-> [error |-> "Request timeout"]]
  ELSE [status |-> 500, body |-> [error |-> "Failed to curate resources"]]

(***************************************************************************)
(* The two routes.  Each action is one turn of the event loop: it runs     *)
(* from the event that resumes the request up to its next await.           *)
(***************************************************************************)
Other(i) == 3 - i

\* the sub-query failed: its promise rejected, or its body has no results
Failed(r, i) ==
  \/ subq[r][i] = "rejected"
  \/ subq[r][i] = "fulfilled" /\ ~HasResults(body[r][i])

\* app.post('/api/curate') from the return of searchTavily to the await of
\* model.generateContent(prompt)
CurateInvokeModel(r, searchData, h) ==
  /\ returned' = [returned EXCEPT ![r] = Some(searchData)]
  /\ pc' = [pc EXCEPT ![r] = "model"]
  /\ hist' = [hist EXCEPT ![r] = [h EXCEPT !.modelCalls = @ + 1]]
  /\ resp' = resp

\* res.json(...) / res.status(...).json(...): the request is answered
Respond(r, response, h, cause) ==
  /\ resp' = [resp EXCEPT ![r] = response]
  /\ pc' = [pc EXCEPT ![r] = "done"]
  /\ hist' = [hist EXCEPT ![r] = [h EXCEPT !.respondedAt = now, !.cause = cause,
                                           !.responses = @ + 1]]

\* generateStudyPlan after the Promise.all: daysUntilExam, the excerpts of
\* both bodies (a body without results throws), then the await of
\* model.generateContent
PlanAfterFanout(r, b1, b2) ==
  LET h == [hist[r] EXCEPT !.daysAt = now,
                           !.daysUntilExam = DaysUntilExam(examDate[r], now)]
  IN  /\ IF HasResults(b1) /\ HasResults(b2)
         THEN /\ pc' = [pc EXCEPT ![r] = "model"]
              /\ hist' = [hist EXCEPT ![r] = [h EXCEPT !.modelCalls = @ + 1]]
              /\ resp' = resp
         ELSE Respond(r, PlanError, h, "upstream")
      /\ UNCHANGED <<searchCache, returned>>

\* CurateAfterFanout that stores what it returns, the value of the catch too
CurateAfterFanoutStoreAlways(r, b1, b2) ==
  /\ searchCache' =
       CacheSet(searchCache, SearchKey(subject[r], FALSE), now,
                SearchData(b1, b2, subject[r]))
  /\ CurateInvokeModel(r, SearchData(b1, b2, subject[r]), hist[r])

\* searchTavily after the Promise.all: combine, filter, sort, de-duplicate,
\* store and return; a body without results throws into the catch
CurateAfterFanout(r, b1, b2) ==
  /\ searchCache' =
       IF HasResults(b1) /\ HasResults(b2)
       THEN CacheSet(searchCache, SearchKey(subject[r], FALSE), now,
                     SearchData(b1, b2, subject[r]))
       ELSE searchCache
  /\ CurateInvokeModel(r, SearchData(b1, b2, subject[r]), hist[r])

\* a request arrives; the route runs up to its first await: the cache lookup
\* and, on a miss, the two fetches.  On a hit /api/plan answers with the
\* data of the entry; /api/curate maps over its results, which throws a
\* TypeError if the data has none, and invokes the model.  The two requests
\* are interchangeable, so r1 is taken to be the one that arrives first.
Arrive(r, o, s, d) ==
  /\ pc[r] = "idle"
  /\ r = "r2" => pc["r1"] # "idle"
  /\ o = "curate" => d = <<>>
  /\ o = "plan" => d # <<>>
  /\ op' = [op EXCEPT ![r] = o]
  /\ subject' = [subject EXCEPT ![r] = s]
  /\ examDate' = [examDate EXCEPT ![r] = d]
  /\ LET cachedResult == CacheGet(searchCache, KeyOf(o, s, d))
         h == [NoHist EXCEPT !.arrivedAt = now, !.cachedResult = cachedResult,
                             !.answeredBefore = {q \in Reqs : pc[q] = "done"}]
     IN  IF IsFresh(cachedResult, now)
         THEN /\ IF o = "curate"
                 THEN IF HasResults(ValueOf(cachedResult).data)
                      THEN CurateInvokeModel(r, ValueOf(cachedResult).data, h)
                      ELSE /\ returned' =
                                [returned EXCEPT ![r] = Some(ValueOf(cachedResult).data)]
                           /\ Respond(r, CurateError("TypeError"), h, "shape")
                 ELSE /\ returned' =
                           [returned EXCEPT ![r] = Some(ValueOf(cachedResult).data)]
                      /\ Respond(r, Ok(ValueOf(cachedResult).data), h, "none")
              /\ UNCHANGED subq
         ELSE /\ subq' = [subq EXCEPT ![r] = <<"pending", "pending">>]
              /\ pc' = [pc EXCEPT ![r] = "fanout"]
              /\ hist' = [hist EXCEPT ![r] = [h EXCEPT !.providerCalls = 2]]
              /\ UNCHANGED <<returned, resp>>
  /\ UNCHANGED <<now, searchCache, body>>
  /\ UNCHANGED <<keyVars, rankVars, authVars, extractVars, frontVars>>

\* sub-query i of request r resolves to body b; Promise.all fulfils when
\* the other sub-query has fulfilled too
SubqueryFulfil(r, i, b) ==
  /\ subq[r][i] = "pending"
  /\ subq' = [subq EXCEPT ![r][i] = "fulfilled"]
  /\ body' = [body EXCEPT ![r][i] = b]
  /\ IF pc[r] = "fanout" /\ subq[r][Other(i)] = "fulfilled"
     THEN IF op[r] = "curate"
          THEN CurateAfterFanout(r, body'[r][1], body'[r][2])
          ELSE PlanAfterFanout(r, body'[r][1], body'[r][2])
     ELSE UNCHANGED <<searchCache, pc, returned, resp, hist>>
  /\ UNCHANGED <<now, op, subject, examDate>>
  /\ UNCHANGED <<keyVars, rankVars, authVars, extractVars, frontVars>>

\* SubqueryReject in which a rejection is handled whether or not the
\* Promise.all is still awaited
SubqueryRejectAlways(r, i) ==
  /\ subq[r][i] = "pending"
  /\ subq' = [subq EXCEPT ![r][i] = "rejected"]
  /\ IF op[r] = "curate"
     THEN CurateInvokeModel(r, EmptySearch, hist[r])
     ELSE /\ Respond(r, PlanError, hist[r], "upstream")
          /\ returned' = returned
  /\ UNCHANGED <<now, searchCache, op, subject, examDate, body>>
  /\ UNCHANGED <<keyVars, rankVars, authVars, extractVars, frontVars>>

\* sub-query i of request r rejects (the fetch, or res.json()); Promise.all
\* rejects at once if it is still awaited
SubqueryReject(r, i) ==
  /\ subq[r][i] = "pending"
  /\ subq' = [subq EXCEPT ![r][i] = "rejected"]
  /\ IF pc[r] = "fanout"
     THEN IF op[r] = "curate"
          THEN CurateInvokeModel(r, EmptySearch, hist[r])
          ELSE /\ Respond(r, PlanError, hist[r], "upstream")
               /\ returned' = returned
     ELSE UNCHANGED <<pc, returned, resp, hist>>
  /\ UNCHANGED <<now, searchCache, op, subject, examDate, body>>
  /\ UNCHANGED <<keyVars, rankVars, authVars, extractVars, frontVars>>

\* model.generateContent resolves with text
ModelFulfil(r, text) ==
  /\ pc[r] = "model"
  /\ LET parsed == ExtractJson(text)
         h == [hist[r] EXCEPT !.modelText = Some(text)]
     IN  IF op[r] = "curate"
         THEN /\ IF parsed = SyntaxError
                 THEN Respond(r, CurateError("SyntaxError"), h, "parse")
                 ELSE Respond(r, Ok(parsed), h, "none")
              /\ UNCHANGED <<searchCache, returned>>
         ELSE IF parsed = SyntaxError
              THEN /\ Respond(r, PlanError, h, "parse")
                   /\ UNCHANGED <<searchCache, returned>>
              ELSE /\ searchCache' =
                        CacheSet(searchCache, PlanKey(subject[r], examDate[r]),
                                 now, parsed)
                   /\ returned' = [returned EXCEPT ![r] = Some(parsed)]
                   /\ Respond(r, Ok(parsed), h, "none")
  /\ UNCHANGED <<now, op, subject, examDate, subq, body>>
  /\ UNCHANGED <<keyVars, rankVars, authVars, extractVars, frontVars>>

\* ModelReject with one retry: the first rejection invokes the model again
ModelRejectRetry(r, name) ==
  /\ pc[r] = "model"
  /\ IF hist[r].modelCalls < 2
     THEN /\ hist' = [hist EXCEPT ![r].modelCalls = @ + 1]
          /\ UNCHANGED <<pc, resp>>
     ELSE IF op[r] = "curate"
          THEN Respond(r, CurateError(name), hist[r], "model")
          ELSE Respond(r, PlanError, hist[r], "model")
  /\ UNCHANGED <<now, searchCache, op, subject, examDate, subq, body, returned>>
  /\ UNCHANGED <<keyVars, rankVars, authVars, extractVars, frontVars>>

\* model.generateContent rejects with an error of the given name
ModelReject(r, name) ==
  /\ pc[r] = "model"
  /\ IF op[r] = "curate"
     THEN Respond(r, CurateError(name), hist[r], "model")
     ELSE Respond(r, PlanError, hist[r], "model")
  /\ UNCHANGED <<now, searchCache, op, subject, examDate, subq, body, returned>>
  /\ UNCHANGED <<keyVars, rankVars, authVars, extractVars, frontVars>>

\* time passes
Tick ==
  /\ \E t \in Instants : t > now /\ now' = t
  /\ UNCHANGED <<searchCache, pc, op, subject, examDate, subq, body, returned,
                 resp, hist>>
  /\ UNCHANGED <<keyVars, rankVars, authVars, extractVars, frontVars>>

Next ==
  \/ \E r \in Reqs, o \in {"curate", "plan"}, s \in Subjects,
        d \in ExamDates \cup {<<>>} : Arrive(r, o, s, d)
  \/ \E r \in Reqs, i \in 1..2 : \E b \in Bodies(i) : SubqueryFulfil(r, i, b)
  \/ \E r \in Reqs, i \in 1..2 : SubqueryReject(r, i)
  \/ \E r \in Reqs, text \in ModelTexts : ModelFulfil(r, text)
  \/ \E r \in Reqs, name \in ErrorNames : ModelReject(r, name)
  \/ Tick

Spec == Init /\ [][Next]_vars

(***************************************************************************)
(* The two routes on one cache, for a subject that starts like a plan key  *)
(***************************************************************************)
\* req.body.subject: x and plan-x
CrossSubjects == {<<"x">>, <<"p", "l", "a", "n", "-", "x">>}

\* req.body.examDate: the route does not check that it is a date
CrossDates == {<<"f", "a", "l", "s", "e">>}

NextCross ==
  \/ \E r \in Reqs, o \in {"curate", "plan"}, s \in CrossSubjects,
        d \in CrossDates \cup {<<>>} : Arrive(r, o, s, d)
  \/ \E r \in Reqs, i \in 1..2 : \E b \in Bodies(i) : SubqueryFulfil(r, i, b)
  \/ \E r \in Reqs, i \in 1..2 : SubqueryReject(r, i)
  \/ \E r \in Reqs, text \in ModelTexts : ModelFulfil(r, text)
  \/ \E r \in Reqs, name \in ErrorNames : ModelReject(r, name)

SpecCross == Init /\ [][NextCross]_vars

\* sub-query i of request r rejects or resolves
SubqueryResolves(r, i) ==
  \/ SubqueryReject(r, i)
  \/ \E b \in Bodies(i) : SubqueryFulfil(r, i, b)

\* the model invocation of request r rejects or resolves
ModelResolves(r) ==
  \/ \E name \in ErrorNames : ModelReject(r, name)
  \/ \E text \in ModelTexts : ModelFulfil(r, text)

\* every outbound call eventually resolves or rejects
Fairness ==
  \A r \in Reqs :
    /\ WF_vars(ModelResolves(r))
    /\ \A i \in 1..2 : WF_vars(SubqueryResolves(r, i))

FairSpec == SpecCross /\ Fairness

(***************************************************************************)
(* The cache keys as functions of the request parameters                   *)
(***************************************************************************)
\* the longest subject drawn character by character
MaxKeyLen == 2

KeyChars == {"P", "p", " "}

Python == <<"P", "y", "t", "h", "o", "n">>

SpacedPython == <<" ", "p", "y", "t", "h", "o", "n", " ">>

KeySubjects ==
  UNION {[1..n -> KeyChars] : n \in 0..MaxKeyLen} \cup {Python, SpacedPython}

\* one subject per request, the plan flag of searchTavily, an exam date
KeyInputs ==
  [a : KeySubjects, b : KeySubjects, isStudyPlan : BOOLEAN, examDate : ExamDates]

InitKey ==
  /\ PipeInit /\ RankIdle /\ AuthIdle /\ ExtractIdle /\ FrontIdle
  /\ keyIn \in KeyInputs
  /\ keyOut = Undefined

\* both operations compute their key for both subjects
ComputeKeys ==
  /\ keyOut = Undefined
  /\ keyOut' = Some([searchA |-> SearchKey(keyIn.a, keyIn.isStudyPlan),
                     searchB |-> SearchKey(keyIn.b, keyIn.isStudyPlan),
                     planA |-> PlanKey(keyIn.a, keyIn.examDate),
                     planB |-> PlanKey(keyIn.b, keyIn.examDate)])
  /\ UNCHANGED <<keyIn, pipeVars, rankVars, authVars, extractVars, frontVars>>

NextKey == ComputeKeys

SpecKey == InitKey /\ [][NextKey]_vars

(***************************************************************************)
(* searchTavily on a miss as a function of the bodies of its sub-queries   *)
(***************************************************************************)
\* the most results in the body of one sub-query
MaxResults == 2

RankSubjects == {<<"P", "y">>, <<"p", "y">>}

\* A and B share a URL and differ in title; C lies between them in score;
\* D has neither relevance_score nor timestamp; E, F and G fail the filter
RankPool ==
  { Result("https://a.org/1", <<"P", "y", " ", "a">>, 150, Some(5), Some(1000)),
    Result("https://a.org/1", <<"p", "y", " ", "b">>, 150, Some(1), Some(9000)),
    Result("https://b.org/2", <<"P", "Y", " ", "c">>, 101, Some(7), Some(2000)),
    Result("https://b.org/2", <<"p", "y", " ", "d">>, 150, Undefined, Undefined),
    Result("https://c.org/3", <<"j", "s">>, 150, Some(9), Some(9000)),
    Result("https://c.org/3", <<"p", "y", " ", "e">>, 100, Some(9), Some(9000)),
    Result("https://c.org/3",
           <<"p", "y", " ", "S", "p", "o", "n", "s", "o", "r", "e", "d">>,
           150, Some(9), Some(9000)) }

RankBodies ==
  {[results |-> rs] : rs \in UNION {[1..n -> RankPool] : n \in 0..MaxResults}}
    \cup {ErrorBody}

InitRank ==
  /\ PipeInit /\ KeyIdle /\ AuthIdle /\ ExtractIdle /\ FrontIdle
  /\ rankIn \in [video : RankBodies, platform : RankBodies, subject : RankSubjects]
  /\ rankOut = Undefined

\* both sub-queries have fulfilled: searchTavily runs to its return
Rank ==
  /\ rankOut = Undefined
  /\ rankOut' = Some(SearchData(rankIn.video, rankIn.platform, rankIn.subject))
  /\ UNCHANGED <<rankIn, pipeVars, keyVars, authVars, extractVars, frontVars>>

NextRank == Rank

SpecRank == InitRank /\ [][NextRank]_vars

(***************************************************************************)
(* searchTavily on a miss with more distinct URLs than it returns          *)
(***************************************************************************)
\* the number of results in the body of each sub-query
TopKLen == 3

\* a result that passes the filter for the subject py
Passing(url, relevance_score) ==
  Result(url, <<"p", "y">>, 150, Some(relevance_score), Undefined)

\* three URLs, one of them twice
VideoPool ==
  { Passing("https://u.org/1", 1), Passing("https://u.org/2", 2),
    Passing("https://u.org/3", 3), Passing("https://u.org/1", 9) }

\* three more URLs, and a result that fails the filter
PlatformPool ==
  { Passing("https://u.org/4", 4), Passing("https://u.org/5", 5),
    Passing("https://u.org/6", 6),
    Result("https://u.org/7", <<"j", "s">>, 150, Some(7), Undefined) }

InitTopK ==
  /\ PipeInit /\ KeyIdle /\ AuthIdle /\ ExtractIdle /\ FrontIdle
  /\ rankIn \in [video : {[results |-> rs] : rs \in [1..TopKLen -> VideoPool]},
                 platform : {[results |-> rs] : rs \in [1..TopKLen -> PlatformPool]},
                 subject : {<<"p", "y">>}]
  /\ rankOut = Undefined

SpecTopK == InitTopK /\ [][NextRank]_vars

(***************************************************************************)
(* authMiddleware                                                          *)
(***************************************************************************)
\* The tokens a request can carry, by what the three decoders make of them:
\*   session  a NextAuth session token: getToken decodes it; it is no signed
\*            JWT and its second segment is no base64 JSON
\*   jwt      a JWT signed with the secret: jwt.verify accepts it
\*   forged   three segments with a JSON payload and a wrong signature
\*   garbage  none of these
Tokens == {"session", "jwt", "forged", "garbage"}

\* getToken({ req, secret, secureCookie }) returns the decoded token, not null
GetTokenDecodes(cookie) == cookie = "session"

\* jwt.verify(token, secret) returns, does not throw
JwtVerifies(token) == token = "jwt"

\* JSON.parse(Buffer.from(token.split(".")[1], "base64").toString()) returns
PayloadParses(token) == token \in {"jwt", "forged"}

\* req.headers.authorization: absent, or its words
AuthorizationHeaders ==
  {Undefined} \cup {<<"Bearer", t>> : t \in Tokens} \cup {<<t>> : t \in Tokens}

OptionalTokens == {Undefined} \cup {Some(t) : t \in Tokens}

\* req.headers.authorization?.split(" ")[1]
TokenFromHeader(authorization) ==
  IF Len(authorization) >= 2 THEN Some(authorization[2]) ELSE Undefined

\* tokenFromHeader || tokenFromCookie || tokenFromCustomHeader
ExtractedToken(req) ==
  IF TokenFromHeader(req.authorization) # Undefined
  THEN TokenFromHeader(req.authorization)
  ELSE IF req.cookie # Undefined THEN req.cookie
  ELSE req.xAuthToken

InitAuth ==
  /\ PipeInit /\ KeyIdle /\ RankIdle /\ ExtractIdle /\ FrontIdle
  /\ authReq \in [authorization : AuthorizationHeaders, cookie : OptionalTokens,
                  xAuthToken : OptionalTokens]
  /\ authPc = "start"
  /\ authRes = NoAuthRes

\* return res.status(401).json(...)
Reject401 == [NoAuthRes EXCEPT !.status = 401]

\* req.user = ...; return next()
CallNext(user, by) == [NoAuthRes EXCEPT !.next = TRUE, !.user = Some(user), !.by = by]

\* the fallback: jwt.verify, then the manual parse of the payload, then the
\* outer catch
VerifyFallback(token) ==
  IF JwtVerifies(token) THEN CallNext(token, "jwt.verify")
  ELSE IF PayloadParses(token) THEN CallNext(token, "payload")
  ELSE Reject401

\* authMiddleware up to the await of getToken, or to its end when there is
\* no token or no cookie
AuthStart ==
  /\ authPc = "start"
  /\ LET token == ExtractedToken(authReq)
     IN  IF token = Undefined
         THEN authPc' = "done" /\ authRes' = Reject401
         ELSE IF authReq.cookie # Undefined
         THEN authPc' = "getToken" /\ authRes' = authRes
         ELSE authPc' = "done" /\ authRes' = VerifyFallback(ValueOf(token))
  /\ UNCHANGED <<authReq, pipeVars, keyVars, rankVars, extractVars, frontVars>>

\* getToken returns: a decoded token passes the request on, null falls back
\* to the verification of the extracted token
GetTokenReturn ==
  /\ authPc = "getToken"
  /\ authPc' = "done"
  /\ authRes' =
       IF GetTokenDecodes(ValueOf(authReq.cookie))
       THEN CallNext(ValueOf(authReq.cookie), "getToken")
       ELSE VerifyFallback(ValueOf(ExtractedToken(authReq)))
  /\ UNCHANGED <<authReq, pipeVars, keyVars, rankVars, extractVars, frontVars>>

NextAuth ==
  \/ AuthStart
  \/ GetTokenReturn

SpecAuth == InitAuth /\ [][NextAuth]_vars

(***************************************************************************)
(* The extraction of the model's output as a function of the response      *)
(***************************************************************************)
\* the language tags after the opening fence: none, json, and two others
ExtractTags == {<<>>, <<"j", "s", "o", "n">>, <<"j", "s">>, <<"J", "S", "O", "N">>}

\* what separates the fences from the document
ExtractSeps == {<<>>, <<"\n">>, <<" ">>}

\* a string whose content is a fence
FenceString == <<"\"">> \o Fence \o <<"\"">>

\* JSON documents, and two texts that are no JSON
ExtractDocs ==
  { <<"{", "}">>, <<"[", " ", "]">>, <<"n", "u", "l", "l">>, <<"7">>,
    <<"\"", "a", "\"">>, FenceString,
    <<"S", "o", "r", "r", "y">>, <<"{">> }

\* the responses: a document alone, or between an opening fence with a tag
\* and a closing fence
ExtractInputs ==
  [fenced : {FALSE}, tag : {<<>>}, sep : {<<>>}, doc : ExtractDocs]
    \cup [fenced : {TRUE}, tag : ExtractTags, sep : ExtractSeps, doc : ExtractDocs]

\* result.response.text() for a response
ResponseText(in) ==
  IF in.fenced
  THEN Fence \o in.tag \o in.sep \o in.doc \o in.sep \o Fence
  ELSE in.doc

InitExtract ==
  /\ PipeInit /\ KeyIdle /\ RankIdle /\ AuthIdle /\ FrontIdle
  /\ extractIn \in ExtractInputs
  /\ extractOut = Undefined

\* JSON.parse(result.response.text().replace(...).trim()) runs on the response
Extract ==
  /\ extractOut = Undefined
  /\ extractOut' = Some(ExtractJson(ResponseText(extractIn)))
  /\ UNCHANGED <<extractIn, pipeVars, keyVars, rankVars, authVars, frontVars>>

NextExtract == Extract

SpecExtract == InitExtract /\ [][NextExtract]_vars

(***************************************************************************)
(* The front-end POST routes: curated resources and study plans            *)
(***************************************************************************)
\* the two routes; each is given one request
FrontRoutes == {"resources", "plan"}

\* what getServerSession(authOptions) resolves to: null, a session whose
\* user has no id, a session whose user has an id
Sessions ==
  {Undefined, Some([user |-> [name |-> "n"]]), Some([user |-> [id |-> "u1"]])}

\* session?.user?.id
UserId(session) ==
  IF /\ session # Undefined
     /\ "user" \in DOMAIN ValueOf(session)
     /\ "id" \in DOMAIN ValueOf(session).user
  THEN Some(ValueOf(session).user.id)
  ELSE Undefined

\* the status of the answer of the Express service
ExpressStatuses == {200, 401, 500, 504}

\* response.ok with every status taken for a success
AlwaysOk(status) == TRUE

\* response.ok
ResponseOk(status) == status \in 200..299

\* the JSON value null
Null == [null |-> TRUE]

\* what response.json() resolves to: curated resources, a plan, an error
\* document, null
ExpressBodies ==
  { [resources |-> <<[title |-> "t", url |-> "https://github.com/x", description |-> "d"]>>],
    [overview |-> "o", weeklyPlans |-> <<>>, recommendations |-> <<>>],
    [error |-> "Failed to curate resources"],
    Null }

\* the statements between connectMongoDB and save() do not throw: the
\* resources route maps over body.resources, the plan route reads the
\* fields of the body
Constructs(f, b) ==
  IF f = "resources" THEN "resources" \in DOMAIN b ELSE b # Null

\* the document new CuratedResource(...) / new StudyPlan(...) is built for
Document(f, userId) ==
  [model |-> IF f = "resources" THEN "CuratedResource" ELSE "StudyPlan",
   userId |-> userId]

NoFrontOut ==
  [status |-> 0, fetches |-> 0, express |-> Undefined, body |-> Undefined,
   saves |-> 0]

InitFront ==
  /\ PipeInit /\ KeyIdle /\ RankIdle /\ AuthIdle /\ ExtractIdle
  /\ frontIn \in
       {Some(in) : in \in [FrontRoutes -> [session : Sessions, bodyOk : BOOLEAN]]}
  /\ frontPc = Some([f \in FrontRoutes |-> "getServerSession"])
  /\ frontOut = Some([f \in FrontRoutes |-> NoFrontOut])
  /\ frontDb = {}

\* the routes' position, output and request, once given
Pc(f) == ValueOf(frontPc)[f]

Out(f) == ValueOf(frontOut)[f]

In(f) == ValueOf(frontIn)[f]

\* the route moves on to await the next call
FrontAwait(f, call, out) ==
  /\ frontPc' = Some([ValueOf(frontPc) EXCEPT ![f] = call])
  /\ frontOut' = Some([ValueOf(frontOut) EXCEPT ![f] = out])

\* return NextResponse.json(..., { status })
FrontRespond(f, status, out) ==
  FrontAwait(f, "done", [out EXCEPT !.status = status])

\* getServerSession resolves: 401 without a user id, else await req.json()
GetSessionReturn(f) ==
  /\ frontPc # Undefined /\ Pc(f) = "getServerSession"
  /\ IF UserId(In(f).session) = Undefined
     THEN FrontRespond(f, 401, Out(f))
     ELSE FrontAwait(f, "req.json", Out(f))
  /\ UNCHANGED <<frontIn, frontDb>>
  /\ UNCHANGED <<pipeVars, keyVars, rankVars, authVars, extractVars>>

\* req.json() settles: the fetch of the Express route is issued, or the
\* body of the request is no JSON object and the catch answers 500
ReqJsonReturn(f) ==
  /\ frontPc # Undefined /\ Pc(f) = "req.json"
  /\ IF In(f).bodyOk
     THEN FrontAwait(f, "fetch", [Out(f) EXCEPT !.fetches = @ + 1])
     ELSE FrontRespond(f, 500, Out(f))
  /\ UNCHANGED <<frontIn, frontDb>>
  /\ UNCHANGED <<pipeVars, keyVars, rankVars, authVars, extractVars>>

\* the fetch resolves with the answer of the Express service: not ok
\* throws into the catch, ok awaits response.json()
FetchFulfil(f, status) ==
  /\ frontPc # Undefined /\ Pc(f) = "fetch"
  /\ LET out == [Out(f) EXCEPT !.express = Some(status)]
     IN  IF ResponseOk(status)
         THEN FrontAwait(f, "response.json", out)
         ELSE FrontRespond(f, 500, out)
  /\ UNCHANGED <<frontIn, frontDb>>
  /\ UNCHANGED <<pipeVars, keyVars, rankVars, authVars, extractVars>>

\* response.json() resolves with body b: the resources route destructures
\* it, which throws on null; then connectMongoDB is awaited
ResponseJsonFulfil(f, b) ==
  /\ frontPc # Undefined /\ Pc(f) = "response.json"
  /\ LET out == [Out(f) EXCEPT !.body = Some(b)]
     IN  IF f = "resources" /\ b = Null
         THEN FrontRespond(f, 500, out)
         ELSE FrontAwait(f, "connectMongoDB", out)
  /\ UNCHANGED <<frontIn, frontDb>>
  /\ UNCHANGED <<pipeVars, keyVars, rankVars, authVars, extractVars>>

\* connectMongoDB resolves: the document is built and save() is called,
\* unless building it throws
ConnectFulfil(f) ==
  /\ frontPc # Undefined /\ Pc(f) = "connectMongoDB"
  /\ IF Constructs(f, ValueOf(Out(f).body))
     THEN FrontAwait(f, "save", [Out(f) EXCEPT !.saves = @ + 1])
     ELSE FrontRespond(f, 500, Out(f))
  /\ UNCHANGED <<frontIn, frontDb>>
  /\ UNCHANGED <<pipeVars, keyVars, rankVars, authVars, extractVars>>

\* save() resolves: the document is stored and the route answers 200
SaveFulfil(f) ==
  /\ frontPc # Undefined /\ Pc(f) = "save"
  /\ frontDb' = frontDb \cup {Document(f, ValueOf(UserId(In(f).session)))}
  /\ FrontRespond(f, 200, Out(f))
  /\ UNCHANGED frontIn
  /\ UNCHANGED <<pipeVars, keyVars, rankVars, authVars, extractVars>>

\* the awaited fetch, response.json(), connectMongoDB or save() rejects:
\* the catch answers 500
AwaitReject(f) ==
  /\ frontPc # Undefined
  /\ Pc(f) \in {"fetch", "response.json", "connectMongoDB", "save"}
  /\ FrontRespond(f, 500, Out(f))
  /\ UNCHANGED <<frontIn, frontDb>>
  /\ UNCHANGED <<pipeVars, keyVars, rankVars, authVars, extractVars>>

NextFront ==
  \/ \E f \in FrontRoutes : GetSessionReturn(f)
  \/ \E f \in FrontRoutes : ReqJsonReturn(f)
  \/ \E f \in FrontRoutes, status \in ExpressStatuses : FetchFulfil(f, status)
  \/ \E f \in FrontRoutes, b \in ExpressBodies : ResponseJsonFulfil(f, b)
  \/ \E f \in FrontRoutes : ConnectFulfil(f)
  \/ \E f \in FrontRoutes : SaveFulfil(f)
  \/ \E f \in FrontRoutes : AwaitReject(f)

SpecFront == InitFront /\ [][NextFront]_vars

(***************************************************************************)
(* Claims                                                                  *)
(***************************************************************************)
ThirtyMinutes == 30 * 60 * 1000

\* the age of the entry request r found at its lookup
AgeSeen(r) == hist[r].arrivedAt - ValueOf(hist[r].cachedResult).timestamp

\* C1: a lookup that finds an entry stored less than 30 minutes earlier
\* returns exactly the data of that entry and issues no sub-query; a lookup
\* that finds an entry stored 30 minutes earlier or more does not return it
\* and issues the two sub-queries, as on a miss.
C1_CacheTtl ==
  \A r \in Reqs :
    (pc[r] # "idle" /\ hist[r].cachedResult # Undefined) =>
      /\ AgeSeen(r) < ThirtyMinutes =>
           /\ returned[r] = Some(ValueOf(hist[r].cachedResult).data)
           /\ hist[r].providerCalls = 0
      /\ AgeSeen(r) >= ThirtyMinutes =>
           /\ hist[r].providerCalls = 2
           /\ pc[r] = "fanout" => returned[r] = Undefined

\* C1 witness: an entry one millisecond short of 30 minutes old was returned
C1_Witness ==
  \E r \in Reqs :
    /\ pc[r] = "done"
    /\ hist[r].cachedResult # Undefined
    /\ AgeSeen(r) = ThirtyMinutes - 1
    /\ returned[r] = Some(ValueOf(hist[r].cachedResult).data)

\* the subject up to letter case and surrounding white space
Normalized(s) == Trim(ToLower(s))

\* C2: subjects that differ only in letter case and in leading or trailing
\* white space give the same searchTavily key and the same generateStudyPlan
\* key.
C2_SameKey ==
  (keyOut # Undefined /\ Normalized(keyIn.a) = Normalized(keyIn.b)) =>
    /\ ValueOf(keyOut).searchA = ValueOf(keyOut).searchB
    /\ ValueOf(keyOut).planA = ValueOf(keyOut).planB

\* what searchTavily would return from the body of sub-query j alone
FromOneBody(r, j) ==
  [results |-> UniqueResults(body[r][j], [results |-> <<>>], subject[r]),
   answer |-> <<>>]

\* C3: when one sub-query failed and the other returned results, the request
\* goes on with the results of the other: searchTavily returns them, and
\* generateStudyPlan does not fail for the upstream failure.
C3_PartialFailure ==
  \A r \in Reqs, i \in 1..2 :
    ( /\ pc[r] \in {"model", "done"}
      /\ Failed(r, i)
      /\ subq[r][Other(i)] = "fulfilled"
      /\ HasResults(body[r][Other(i)]) ) =>
      /\ op[r] = "curate" => returned[r] = Some(FromOneBody(r, Other(i)))
      /\ op[r] = "plan" => hist[r].cause # "upstream"

\* C4: a /api/curate request arriving less than 30 minutes after the success
\* response to a request for the same subject issues no sub-query and no
\* model call.
C4_SecondCurateFromCache ==
  \A r1 \in Reqs, r2 \in Reqs :
    ( /\ op[r1] = "curate" /\ op[r2] = "curate"
      /\ subject[r1] = subject[r2]
      /\ r1 \in hist[r2].answeredBefore
      /\ resp[r1].status = 200
      /\ hist[r2].arrivedAt - hist[r1].respondedAt < ThirtyMinutes ) =>
      /\ hist[r2].providerCalls = 0
      /\ hist[r2].modelCalls = 0

\* C5: an answered request whose two sub-queries both failed got no success
\* response; an answered request with a sub-query that succeeded did not
\* fail for the upstream failure.
C5_AllFailedSurfaced ==
  \A r \in Reqs :
    pc[r] = "done" =>
      /\ (Failed(r, 1) /\ Failed(r, 2)) => resp[r].status # 200
      /\ (\E i \in 1..2 : subq[r][i] = "fulfilled" /\ HasResults(body[r][i])) =>
           hist[r].cause # "upstream"

\* C6: two requests of the same route that failed for different causes
\* (upstream, model invocation, parsing) got different responses.
C6_DistinctFailures ==
  \A r1 \in Reqs, r2 \in Reqs :
    ( /\ pc[r1] = "done" /\ pc[r2] = "done"
      /\ op[r1] = op[r2]
      /\ hist[r1].cause # "none" /\ hist[r2].cause # "none"
      /\ hist[r1].cause # hist[r2].cause ) =>
      resp[r1] # resp[r2]

\* the request carries a token that getToken or jwt.verify accepts
Verified(req) ==
  \/ req.cookie # Undefined /\ GetTokenDecodes(ValueOf(req.cookie))
  \/ ExtractedToken(req) # Undefined /\ JwtVerifies(ValueOf(ExtractedToken(req)))

\* C7: authMiddleware calls next only for a request with a verified token,
\* and answers every other request with status 401 without calling next.
C7_OnlyVerified ==
  authPc = "done" =>
    /\ authRes.next => Verified(authReq)
    /\ ~Verified(authReq) => authRes.status = 401 /\ ~authRes.next

\* C8: no two entries of the list searchTavily returns have the same url.
C8_UniqueUrls ==
  rankOut # Undefined =>
    \A i, j \in 1..Len(ValueOf(rankOut).results) :
      i # j => ValueOf(rankOut).results[i].url # ValueOf(rankOut).results[j].url

\* C8 witness: two results with one URL and different titles passed the
\* filter, and the list returned has exactly one entry for that URL
C8_Witness ==
  /\ rankOut # Undefined
  /\ HasResults(rankIn.video) /\ HasResults(rankIn.platform)
  /\ LET raw == FilterResults(rankIn.video.results \o rankIn.platform.results,
                              rankIn.subject)
         out == ValueOf(rankOut).results
     IN  \E i, j \in 1..Len(raw) :
           /\ raw[i].url = raw[j].url
           /\ raw[i].title # raw[j].title
           /\ Cardinality({k \in 1..Len(out) : out[k].url = raw[i].url}) = 1

\* C9: the list searchTavily returns is in descending order of the score:
\* no entry has a strictly higher score than an entry listed before it.
C9_Descending ==
  rankOut # Undefined =>
    \A i, j \in 1..Len(ValueOf(rankOut).results) :
      i < j => Score(ValueOf(rankOut).results[i]) >= Score(ValueOf(rankOut).results[j])

\* the exam date of r is midnight of the tenth day after the day on which
\* the duration was computed
TenDaysAhead(r) ==
  DateGetTime(examDate[r]) =
    Some(((hist[r].daysAt \div MS_PER_DAY) + 10) * MS_PER_DAY)

\* the exam date of r lies before the instant the duration was computed
InThePast(r) ==
  /\ DateGetTime(examDate[r]) # Undefined
  /\ ValueOf(DateGetTime(examDate[r])) < hist[r].daysAt

\* C10: once generateStudyPlan has computed the duration, it is 10 for an
\* exam date ten days after today, and for an exam date in the past it is
\* not positive, the model was invoked if both bodies had results, and a
\* model output that parses is answered with status 200 and the plan.
C10_DaysUntilExam ==
  \A r \in Reqs :
    (op[r] = "plan" /\ hist[r].daysAt >= 0) =>
      /\ TenDaysAhead(r) => hist[r].daysUntilExam = Some(10)
      /\ InThePast(r) =>
           /\ ValueOf(hist[r].daysUntilExam) <= 0
           /\ (HasResults(body[r][1]) /\ HasResults(body[r][2])) =>
                hist[r].modelCalls = 1 /\ hist[r].cause # "upstream"
           /\ ( /\ hist[r].modelText # Undefined
                /\ ExtractJson(ValueOf(hist[r].modelText)) # SyntaxError ) =>
                resp[r] = Ok(ExtractJson(ValueOf(hist[r].modelText)))

\* C10 witness: a plan for a past exam date was answered with status 200,
\* and a duration of 10 was computed during the day for a date ten days ahead
C10_Witness ==
  \E r1 \in Reqs, r2 \in Reqs :
    /\ op[r1] = "plan" /\ hist[r1].daysAt >= 0 /\ InThePast(r1)
    /\ ValueOf(hist[r1].daysUntilExam) < 0
    /\ resp[r1].status = 200
    /\ op[r2] = "plan" /\ hist[r2].daysAt >= 0 /\ TenDaysAhead(r2)
    /\ hist[r2].daysAt % MS_PER_DAY # 0
    /\ hist[r2].daysUntilExam = Some(10)

\* C11: a response that is a JSON document between an opening fence, with or
\* without a language tag, and a closing fence, or that is the document
\* alone, is extracted to that document; a response whose stripped text is
\* no JSON is extracted to a failure.
C11_Extraction ==
  extractOut # Undefined =>
    /\ JsonParse(extractIn.doc) # SyntaxError =>
         extractOut = Some(JsonParse(extractIn.doc))
    /\ JsonParse(Trim(StripFences(ResponseText(extractIn)))) = SyntaxError =>
         extractOut = Some(SyntaxError)

\* the results of rankIn that pass the filter, in the order of the sort:
\* the order in which the de-duplication traverses them
Traversed ==
  SortResults(FilterResults(rankIn.video.results \o rankIn.platform.results,
                            rankIn.subject))

\* the first result with the given url in the sequence
FirstWithUrl(items, url) ==
  items[CHOOSE i \in 1..Len(items) :
          /\ items[i].url = url
          /\ \A j \in 1..(i - 1) : items[j].url # url]

\* C12: every entry of the list searchTavily returns is the first result
\* with its url in traversal order, with the title, content and score of
\* that first occurrence.
C12_FirstKept ==
  (rankOut # Undefined /\ HasResults(rankIn.video) /\ HasResults(rankIn.platform)) =>
    \A k \in 1..Len(ValueOf(rankOut).results) :
      ValueOf(rankOut).results[k] =
        FirstWithUrl(Traversed, ValueOf(rankOut).results[k].url)

\* request r has left the fan-out stage: it issued its sub-queries and its
\* execution is past the await of Promise.all
LeftFanout(r) == hist[r].providerCalls = 2 /\ pc[r] \in {"model", "done"}

\* C13: a request that has left the fan-out stage, to the filter or synthesis
\* step or to the error path, has no sub-query pending.
C13_JoinAll ==
  \A r \in Reqs :
    LeftFanout(r) => \A i \in 1..2 : subq[r][i] # "pending"

\* the cache key of request r
Key(r) == KeyOf(op[r], subject[r], examDate[r])

\* the lookup of request r found no entry it could return
Missed(r) == pc[r] # "idle" /\ ~IsFresh(hist[r].cachedResult, hist[r].arrivedAt)

\* request r got the plan of its own model call as its success response
OwnPlan(r) ==
  /\ op[r] = "plan" /\ pc[r] = "done" /\ resp[r].status = 200
  /\ hist[r].modelText # Undefined

\* two requests that both missed have different keys, or each issued its
\* sub-queries and, if answered with success, its model call, and of two
\* plans the one answered later is the entry in the cache
BothRun ==
  \A r1 \in Reqs, r2 \in Reqs :
    (r1 # r2 /\ Missed(r1) /\ Missed(r2)) =>
      \/ /\ hist[r1].providerCalls = 2 /\ hist[r2].providerCalls = 2
         /\ resp[r2].status = 200 => hist[r2].modelCalls = 1
         /\ (OwnPlan(r1) /\ OwnPlan(r2) /\ hist[r1].respondedAt < hist[r2].respondedAt) =>
              /\ Key(r2) \in DOMAIN searchCache
              /\ searchCache[Key(r2)] =
                   [timestamp |-> hist[r2].respondedAt, data |-> resp[r2].body]
      \/ Key(r1) # Key(r2)

\* request r completes a successful execution of searchTavily or of
\* generateStudyPlan in this step
Completes(r) ==
  \/ /\ op[r] = "curate" /\ pc[r] = "fanout" /\ pc'[r] = "model"
     /\ subq'[r] = <<"fulfilled", "fulfilled">>
     /\ HasResults(body'[r][1]) /\ HasResults(body'[r][2])
  \/ /\ op[r] = "plan" /\ pc[r] = "model" /\ pc'[r] = "done"
     /\ resp'[r].status = 200

\* a request that completes stores its own result, whole and with the
\* current time, under its key, whatever was there, and touches no other
\* entry
WholeEntry ==
  \A r \in Reqs :
    Completes(r) =>
      /\ DOMAIN searchCache' = DOMAIN searchCache \cup {Key(r)}
      /\ searchCache'[Key(r)] = [timestamp |-> now, data |-> ValueOf(returned'[r])]
      /\ \A k \in DOMAIN searchCache \ {Key(r)} : searchCache'[k] = searchCache[k]

\* C14: requests for one key that both miss are not coalesced: each issues
\* its own sub-queries and its own model call, each stores its result, and
\* a store replaces the entry as a whole, so that the entry left is the one
\* stored last and never a mixture of two results.
C14_NotCoalesced == []BothRun /\ [][WholeEntry]_vars

\* C14 witness: two plan requests for one key were in flight together, both
\* missed, both were answered with their own plans, which differ, and the
\* cache holds the plan answered last
C14_Witness ==
  /\ OwnPlan("r1") /\ OwnPlan("r2")
  /\ Key("r1") = Key("r2")
  /\ Missed("r1") /\ Missed("r2")
  /\ "r1" \notin hist["r2"].answeredBefore
  /\ resp["r1"].body # resp["r2"].body
  /\ hist["r1"].respondedAt < hist["r2"].respondedAt
  /\ searchCache[Key("r2")].data = resp["r2"].body

\* C15: a request invokes the model at most once, and a request whose model
\* invocation failed has been answered with a failure response after that
\* one invocation.
C15_ModelOnce ==
  \A r \in Reqs :
    /\ hist[r].modelCalls <= 1
    /\ hist[r].cause = "model" =>
         /\ pc[r] = "done"
         /\ resp[r].status \in {500, 504}
         /\ hist[r].modelCalls = 1

\* C15 witness: on both routes a model invocation was rejected and the request
\* was answered with a failure after one invocation
C15_Witness ==
  \E r1 \in Reqs, r2 \in Reqs :
    /\ op[r1] = "curate" /\ op[r2] = "plan"
    /\ hist[r1].cause = "model" /\ hist[r2].cause = "model"
    /\ hist[r1].modelCalls = 1 /\ hist[r2].modelCalls = 1
    /\ resp[r1].status \in {500, 504} /\ resp[r2].status = 500

\* C16: while the model invocation of a request runs, no sub-query of that
\* request is pending.
C16_ModelAfterFanout ==
  \A r \in Reqs :
    pc[r] = "model" => \A i \in 1..2 : subq[r][i] # "pending"

\* the URLs of the results of rankIn that passed the filter of searchTavily
PassedUrls ==
  IF HasResults(rankIn.video) /\ HasResults(rankIn.platform)
  THEN LET passed == FilterResults(rankIn.video.results \o rankIn.platform.results,
                                   rankIn.subject)
       IN  {passed[i].url : i \in 1..Len(passed)}
  ELSE {}

\* C17: the list searchTavily returns on a miss has at most 5 entries, and
\* fewer than 5 only if fewer than 5 distinct URLs passed the filter.
C17_TopK ==
  rankOut # Undefined =>
    /\ Len(ValueOf(rankOut).results) <= 5
    /\ Len(ValueOf(rankOut).results) < 5 => Cardinality(PassedUrls) < 5

\* C17 witness: six distinct URLs passed the filter and five entries were
\* returned
C17_Witness ==
  /\ rankOut # Undefined
  /\ Cardinality(PassedUrls) = 6
  /\ Len(ValueOf(rankOut).results) = 5

\* the execution of searchTavily or of generateStudyPlan for request r ends
\* in failure in this step: in the catch of searchTavily, or with the plan
\* route answering 500
FailsNow(r) ==
  \/ /\ op[r] = "curate" /\ pc[r] = "fanout" /\ pc'[r] = "model"
     /\ \E i \in 1..2 : subq'[r][i] # "fulfilled" \/ ~HasResults(body'[r][i])
  \/ /\ op[r] = "plan" /\ pc[r] \in {"fanout", "model"} /\ pc'[r] = "done"
     /\ resp'[r].status = 500

\* a step in which an execution fails leaves the cache as it is, and a step
\* that changes the cache is one in which a request completes a successful
\* execution and returns
FrameStep ==
  /\ \A r \in Reqs : FailsNow(r) => searchCache' = searchCache
  /\ searchCache' # searchCache =>
       \E r \in Reqs : Completes(r) /\ returned'[r] # Undefined

\* C18: an execution of searchTavily or generateStudyPlan that ends in
\* failure adds, replaces and removes no cache entry; the cache changes only
\* in the last step of a successful execution.
C18_FailureLeavesCache == [][FrameStep]_vars

\* C18 witness: a plan request failed on the parse of the model's output
\* after another request had stored a plan under the same key, and the
\* entry of that other request is still in the cache
C18_Witness ==
  \E r1 \in Reqs, r2 \in Reqs :
    /\ OwnPlan(r1)
    /\ op[r2] = "plan" /\ Key(r2) = Key(r1) /\ Missed(r2)
    /\ pc[r2] = "done" /\ hist[r2].cause = "parse"
    /\ hist[r1].respondedAt < hist[r2].respondedAt
    /\ searchCache[Key(r1)] =
         [timestamp |-> hist[r1].respondedAt, data |-> resp[r1].body]

\* C19: a searchTavily request and a generateStudyPlan request never have
\* the same cache key, and what an operation returns has its own shape:
\* searchTavily a search payload with results, generateStudyPlan a parsed
\* plan.
C19_DisjointKeys ==
  /\ \A r1 \in Reqs, r2 \in Reqs :
       (op[r1] = "curate" /\ op[r2] = "plan") => Key(r1) # Key(r2)
  /\ \A r \in Reqs :
       returned[r] # Undefined =>
         /\ op[r] = "curate" => HasResults(ValueOf(returned[r]))
         /\ op[r] = "plan" => "json" \in DOMAIN ValueOf(returned[r])

\* at most one response has been sent to each request, and a request is
\* done exactly when its response has been sent
AtMostOneResponse ==
  \A r \in Reqs :
    /\ hist[r].responses <= 1
    /\ pc[r] = "done" <=> hist[r].responses = 1
    /\ hist[r].responses = 1 <=> resp[r] # NoResp

\* C20: if every outbound call eventually resolves or rejects, every request
\* that has arrived is eventually answered, and no request is answered more
\* than once.
C20_OneResponse ==
  /\ \A r \in Reqs : (pc[r] # "idle") ~> (hist[r].responses = 1)
  /\ []AtMostOneResponse

\* C20 witness: both requests were in flight together and both are answered
\* once, one with a failure after a rejected sub-query and one with success
\* after its model call
C20_Witness ==
  \E r1 \in Reqs, r2 \in Reqs :
    /\ hist[r1].responses = 1 /\ hist[r2].responses = 1
    /\ hist[r1].providerCalls = 2 /\ hist[r2].providerCalls = 2
    /\ \E i \in 1..2 : subq[r1][i] = "rejected"
    /\ resp[r1].status = 500
    /\ hist[r2].modelCalls = 1 /\ resp[r2].status = 200

\* the front-end route f found a session with a user id
HasUserId(f) == UserId(In(f).session) # Undefined

\* the Express service answered the fetch of route f with a success status
ExpressSucceeded(f) ==
  /\ Out(f).express # Undefined
  /\ ValueOf(Out(f).express) \in 200..299

\* C21: in both front-end POST routes save() is called, and a document
\* stored, only after a session with a user id was found and the Express
\* service answered with a success status; a request without a session user
\* id issues no fetch and no save and is answered 401; a non-success answer
\* of the Express service is answered 500 without a save.
C21_SaveAfterSuccess ==
  frontOut # Undefined =>
    /\ \A f \in FrontRoutes :
         /\ Out(f).saves > 0 =>
              HasUserId(f) /\ Out(f).fetches = 1 /\ ExpressSucceeded(f)
         /\ ~HasUserId(f) =>
              /\ Out(f).fetches = 0 /\ Out(f).saves = 0
              /\ Pc(f) = "done" => Out(f).status = 401
         /\ (Out(f).express # Undefined /\ ~ExpressSucceeded(f)) =>
              Pc(f) = "done" /\ Out(f).status = 500 /\ Out(f).saves = 0
    /\ \A doc \in frontDb :
         \E f \in FrontRoutes :
           /\ HasUserId(f) /\ ExpressSucceeded(f) /\ Out(f).saves = 1
           /\ doc = Document(f, ValueOf(UserId(In(f).session)))

\* C21 witness: the resources route stored its document after the Express
\* service answered 200, and the plan route answered 500 without a save
\* after the Express service answered 504
C21_Witness ==
  /\ frontOut # Undefined
  /\ Out("resources").status = 200 /\ Out("resources").saves = 1
  /\ Out("resources").express = Some(200)
  /\ Document("resources", "u1") \in frontDb
  /\ HasUserId("plan") /\ Out("plan").express = Some(504)
  /\ Out("plan").status = 500 /\ Out("plan").saves = 0
  /\ Cardinality(frontDb) = 1

====
